---- MODULE Spec2Model ----
(***************************************************************************)
(* Movie Explorer: the movie-list acquisition pipeline (useMovies), the    *)
(* poster validator, the detail cache and the favorites reconciler         *)
(* (AuthProvider / useFavorites), as state machines.                       *)
(*                                                                         *)
(* The JavaScript runtime is single-threaded: every action below is one    *)
(* event-loop turn (an event handler, a timer callback or the settlement   *)
(* of a network request / image load) together with the promise            *)
(* continuations (microtasks) and the React effects it triggers.           *)
(***************************************************************************)
EXTENDS Integers, Sequences, FiniteSets, TLC

VARIABLES
    world,                  \* which remote environment (catalog, outcomes) this run talks to
    token,                  \* useMovies: token state
    tokenReq,               \* "idle" | "pending" | "done": the initial effect and its token request
    movies,                 \* useMovies: movies state (the displayed list)
    loading,                \* useMovies: loading
    loadingDetails,         \* useMovies: loadingDetails (set of movie ids)
    error,                  \* useMovies: error message or NoError
    searchQuery,            \* useMovies: searchQuery
    selectedGenre,          \* useMovies: selectedGenre
    currentPage,            \* useMovies: currentPage
    totalPages,             \* useMovies: totalPages
    totalResults,           \* useMovies: totalResults
    prevSearch,             \* useMovies: prevSearch ref
    prevGenre,              \* useMovies: prevGenre ref
    timers,                 \* pending debounce timers (setTimeout not yet fired or cleared)
    cleanupTimer,           \* timer id the search effect's cleanup would clear (0: no cleanup)
    fetches,                \* the fetchMovies calls made so far, by call number
    nfetch,                 \* number of fetchMovies calls made so far
    movieCache,             \* utils: movieCache (movie id -> hydrated Movie)
    posterValidationCache,  \* posterValidationCache (poster URL -> boolean)
    images,                 \* Image objects created by validatePosterImage and still able to fire
    calls,                  \* direct validatePosterImage calls (poster validator on its own)
    lastOp,                 \* history: the operation performed by the last step
    owner,                  \* history: the fetchMovies call that last replaced the movies list
    cacheBypass,            \* history: ids requested over the network while movieCache held them
    user,                   \* AuthProvider: user (NoUser or a user id)
    authReq,                \* "none" | "login" | "logout": the auth provider call in flight
    cloudFavorites,         \* AuthProvider: cloudFavorites (in-memory list of Favorite records)
    localFavorites,         \* AuthProvider: localFavorites (in-memory list of movie ids)
    storage,                \* localStorage['movieFavorites'] (NoItem or the stored array)
    cloudStore,             \* the favorites documents the cloud database holds for the user
    ndocs,                  \* number of documents the cloud database has created so far
    requests,               \* favoritesService calls in flight
    syncs,                  \* the syncLocalToCloud calls made so far, by call number
    guestPromptOpen,        \* useFavorites: guestPromptOpen
    pendingFavoriteAction,  \* useFavorites: pendingFavoriteAction (NoMovie or a movie id)
    favTrace                \* history: the guest operations on one movie id since a snapshot

pipeVars ==
    <<world, token, tokenReq, movies, loading, loadingDetails, error, searchQuery,
      selectedGenre, currentPage, totalPages, totalResults, prevSearch, prevGenre,
      timers, cleanupTimer, fetches, nfetch, movieCache, posterValidationCache, images, calls,
      lastOp, owner, cacheBypass>>

favVars ==
    <<user, authReq, cloudFavorites, localFavorites, storage, cloudStore, ndocs, requests, syncs,
      guestPromptOpen, pendingFavoriteAction, favTrace>>

vars == <<pipeVars, favVars>>

----------------------------------------------------------------------------
(* Bounds of the model *)

\* fetchMovies calls explored per run
MaxFetches == 2

\* direct validatePosterImage calls explored per run (poster validator on its own)
MaxCalls == 2

\* largest page number a user asks for
MaxPage == 3

\* documents the cloud database creates per run
MaxDocs == 3

\* favoritesService calls in flight at once
MaxRequests == 2

\* syncLocalToCloud calls explored per run
MaxSyncs == 1

----------------------------------------------------------------------------
(* Program constants *)

\* fetchMovies: const fetchLimit = isLandingPage ? 30 : 15
LandingLimit == 30

PageLimit == 15

\* fetchMovies: .slice(0, 15)
DisplayCount == 15

\* fetchMovies: const batchSize = 5
batchSize == 5

----------------------------------------------------------------------------
(* Values *)

NoToken == "null"

NoError == "null"

NoUser == "null"

\* localStorage.getItem(key) === null, and an item holding a JSON array
NoItem == [present |-> FALSE, ids |-> <<>>]

Item(ids) == [present |-> TRUE, ids |-> ids]

NoMovie == 0

Min(a, b) == IF a < b THEN a ELSE b

Range(s) == {s[k] : k \in 1..Len(s)}

\* A poster URL is the sequence of its parts; the empty sequence is a missing
\* (undefined or empty) posterUrl.
NoPoster == <<>>

\* String.prototype.includes, on the parts of a URL
Includes(url, part) == \E k \in 1..Len(url) : url[k] = part

\* String.prototype.startsWith('http')
StartsWithHttp(url) == Len(url) > 0 /\ url[1] \in {"http", "https"}

\* Movie: a summary {id, title} has hydrated = FALSE and no posterUrl
Summary(id) == [id |-> id, posterUrl |-> NoPoster, hydrated |-> FALSE]

\* the null a failed detail fetch resolves to
NullMovie == [id |-> 0, posterUrl |-> NoPoster, hydrated |-> FALSE]

\* a detail request that has not settled yet
PendingMovie == [id |-> -1, posterUrl |-> NoPoster, hydrated |-> FALSE]

----------------------------------------------------------------------------
(* The remote movies API and image hosts (external collaborators) *)

\* the poster URL the detail endpoint returns for a movie
PosterUrlOf(id) ==
    IF id % 6 = 0 THEN <<"http", "cdn", "placeholder", ToString(id), ".jpg">>
    ELSE IF id % 7 = 0 THEN NoPoster
    ELSE IF id = 5 THEN <<"ftp", "cdn", ToString(id), ".jpg">>
    ELSE IF id = 10 THEN <<"http", "cdn", ToString(id), ".gif">>
    ELSE IF id = 15 THEN <<"https", "cdn", "default", ToString(id), ".webp">>
    ELSE IF id = 20 THEN <<"http", "cdn", "no-image", ToString(id), ".png">>
    ELSE IF id % 2 = 0 THEN <<"https", "cdn", ToString(id), ".png">>
    ELSE <<"http", "cdn", ToString(id), ".jpg">>

\* GET /movies/{id} -> Movie
DetailOf(id) == [id |-> id, posterUrl |-> PosterUrlOf(id), hydrated |-> TRUE]

Worlds == {"small", "full", "sparse", "empty"}

\* how GET /movies/{id} can end in each world
DetailOutcomes(w, id) ==
    CASE w = "small" -> IF id = 2 THEN {"fail"} ELSE IF id = 3 THEN {"ok", "fail"} ELSE {"ok"}
      [] w = "full" -> {"ok"}
      [] w = "sparse" -> IF id \in {1, 13, 22, 23, 25, 26, 27, 29} THEN {"fail"} ELSE {"ok"}
      [] OTHER -> {"ok"}

\* how loading a poster URL can end in each world: the image loads, errors,
\* or does neither before the validation timeout
ImageOutcomes(w, url) ==
    CASE w = "full" ->
            IF url = PosterUrlOf(3) THEN {"error"}
            ELSE IF url = PosterUrlOf(8) THEN {"timeout"}
            ELSE {"load"}
      [] w = "sparse" ->
            IF url \in {PosterUrlOf(2), PosterUrlOf(4), PosterUrlOf(9), PosterUrlOf(11)}
            THEN {"error"}
            ELSE IF url = PosterUrlOf(16) THEN {"timeout", "error"}
            ELSE {"load"}
      [] w = "small" ->
            IF url = PosterUrlOf(1) THEN {"load", "error", "timeout"}
            ELSE IF url = PosterUrlOf(3) THEN {"load", "error"}
            ELSE {"load"}
      [] OTHER -> {"load", "error", "timeout"}

\* 1, 2, ..., n
RECURSIVE Upto(_)
Upto(n) == IF n = 0 THEN <<>> ELSE Append(Upto(n - 1), n)

\* GET /movies?page&limit&search&genre -> { data, totalPages, total }: the
\* responses the list endpoint gives in each world (totalPages = 0 and
\* total = 0 stand for a missing field)
ListResponses(w) ==
    CASE w = "small" ->
            { [data |-> <<3, 6>>, totalPages |-> 2, total |-> 17],
              [data |-> <<1, 2, 3, 4, 5, 6>>, totalPages |-> 1, total |-> 0] }
      [] w = "full" -> { [data |-> Upto(30), totalPages |-> 4, total |-> 100] }
      [] w = "sparse" -> { [data |-> Upto(30), totalPages |-> 0, total |-> 0] }
      [] OTHER ->
            { [data |-> <<>>, totalPages |-> tp, total |-> 0] : tp \in {0, 2, 3} }

\* what a user types into the search box, which genre pills there are and
\* which page buttons get clicked
SearchTexts == {"", "bat", "batm", "batman"}

Genres == {"Horror", "Drama"}

Pages == 0..(MaxPage + 1)

----------------------------------------------------------------------------
(* Poster validation: isPosterUrlLikelyValid, validatePosterImage *)

isPosterUrlLikelyValid(url) ==
    IF url = NoPoster THEN FALSE
    ELSE IF Includes(url, "placeholder") THEN FALSE
    ELSE IF Includes(url, "no-image") THEN FALSE
    ELSE IF Includes(url, "default") THEN FALSE
    ELSE StartsWithHttp(url)
         /\ (Includes(url, ".jpg") \/ Includes(url, ".png") \/ Includes(url, ".webp"))

\* the value a validation promise resolves to, as kept in a fetch's result list
Resolved(b) == IF b THEN "true" ELSE "false"

\* validatePosterImage up to its return: a cached URL gives a resolved promise,
\* any other URL gives a pending promise and a new Image with a timeout
validatePosterImage(pvc, url) ==
    IF url \in DOMAIN pvc
    THEN [load |-> FALSE, result |-> Resolved(pvc[url])]
    ELSE [load |-> TRUE, result |-> "pending"]

\* Map.prototype.set
MapSet(map, key, value) ==
    [x \in DOMAIN map \cup {key} |-> IF x = key THEN value ELSE map[x]]

----------------------------------------------------------------------------
(* fetchMovieDetails and the batch loop of fetchMovies *)

\* a detail fetch that never looks into the cache
FetchAlways(cache, id) == [request |-> TRUE, result |-> PendingMovie]

\* fetchMovieDetails up to its first await: a cached id returns the cached
\* record, any other id issues GET /movies/{id}
fetchMovieDetails(cache, id) ==
    IF id \in DOMAIN cache
    THEN [request |-> FALSE, result |-> cache[id]]
    ELSE [request |-> TRUE, result |-> PendingMovie]

\* a fetchMovies call: its arguments, its locals and where it is suspended
IdleFetch ==
    [st |-> "idle", page |-> 0, search |-> "", genre |-> "", landing |-> FALSE,
     limit |-> 0, data |-> <<>>, all |-> <<>>, i |-> 0, details |-> <<>>,
     cands |-> <<>>, valid |-> <<>>, params |-> {}]

\* a landing test that does not look at the genre
isLandingNoGenre(page, search, genre) == page = 1 /\ search = ""

\* const isLandingPage = page === 1 && !search && !genre
isLandingPage(page, search, genre) == page = 1 /\ search = "" /\ genre = ""

\* const fetchLimit = isLandingPage ? 30 : 15
fetchLimit(landing) == IF landing THEN LandingLimit ELSE PageLimit

\* new URLSearchParams({ page: String(page), limit: String(fetchLimit) }), then
\* if (search) params.append('search', search); if (genre) params.append('genre', genre)
URLSearchParams(page, limit, search, genre) ==
    {[key |-> "page", value |-> ToString(page)],
     [key |-> "limit", value |-> ToString(limit)]}
    \cup (IF search # "" THEN {[key |-> "search", value |-> search]} ELSE {})
    \cup (IF genre # "" THEN {[key |-> "genre", value |-> genre]} ELSE {})

\* movieIds.slice(i, i + batchSize)
Batch(fr) == SubSeq(fr.data, fr.i + 1, Min(fr.i + batchSize, Len(fr.data)))

\* detail requests of a call that have not settled
PendingDetails(fr) == {k \in 1..Len(fr.details) : fr.details[k] = PendingMovie}

\* Array.prototype.findIndex(m => m.id === id), 0 for -1
FindIndex(ms, id) ==
    IF \E k \in 1..Len(ms) : ms[k].id = id
    THEN CHOOSE k \in 1..Len(ms) : ms[k].id = id /\ \A j \in 1..(k - 1) : ms[j].id # id
    ELSE 0

\* batch.forEach((id, idx) => { ... allMoviesWithDetails[movieIndex] = detail })
RECURSIVE UpdateAll(_, _, _, _)
UpdateAll(all, batch, details, idx) ==
    IF idx > Len(batch) THEN all
    ELSE LET detail == details[idx]
             movieIndex == FindIndex(all, batch[idx])
             next == IF detail # NullMovie /\ movieIndex # 0
                     THEN [all EXCEPT ![movieIndex] = detail]
                     ELSE all
         IN UpdateAll(next, batch, details, idx + 1)

\* a progressive update that keeps only the movies the batch has a record for
ProgressiveDrop(prev, details) ==
    SelectSeq(prev, LAMBDA m : \E j \in 1..Len(details) : details[j].id = m.id)

\* setMovies(prev => prev.map(movie => details.find(d => d?.id === movie.id) || movie))
ProgressiveUpdate(prev, details) ==
    [k \in 1..Len(prev) |->
        LET ds == {j \in 1..Len(details) : details[j].id = prev[k].id}
        IN IF ds = {} THEN prev[k]
           ELSE details[CHOOSE j \in ds : \A j2 \in ds : j <= j2]]

\* the start of one iteration of the batch loop: fetchMovieDetails for every id
\* of the batch, each running up to its first await
StartBatch(ctx, cache) ==
    LET batch == Batch(ctx.fr)
        res == [k \in 1..Len(batch) |-> fetchMovieDetails(cache, batch[k])]
    IN [ctx EXCEPT
          !.fr.details = [k \in 1..Len(batch) |-> res[k].result],
          !.bypass = @ \cup {batch[k] : k \in {j \in 1..Len(batch) :
                                   res[j].request /\ batch[j] \in DOMAIN cache}}]

\* the rest of one iteration, once Promise.all of the batch has resolved
CompleteBatch(ctx) ==
    LET fr == ctx.fr
        batch == Batch(fr)
    IN [ctx EXCEPT
          !.fr.all = UpdateAll(fr.all, batch, fr.details, 1),
          !.fr.i = fr.i + batchSize,
          !.fr.details = <<>>,
          !.movies = IF fr.landing THEN @ ELSE ProgressiveUpdate(@, fr.details),
          !.loadingDetails = IF fr.landing THEN @ ELSE @ \ Range(batch)]

\* m.posterUrl && isPosterUrlLikelyValid(m.posterUrl)
IsCandidate(m) == m.posterUrl # NoPoster /\ isPosterUrlLikelyValid(m.posterUrl)

\* validations.filter(v => v.valid).map(v => v.movie)
RECURSIVE FilterValid(_, _)
FilterValid(cands, valid) ==
    IF Len(cands) = 0 THEN <<>>
    ELSE IF Head(valid) = "true"
         THEN <<Head(cands)>> \o FilterValid(Tail(cands), Tail(valid))
         ELSE FilterValid(Tail(cands), Tail(valid))

\* a slice that keeps the whole array
SliceAll(s, n) == s

\* Array.prototype.slice(0, n)
Slice0(s, n) == SubSeq(s, 1, Min(n, Len(s)))

\* the landing branch up to its await: the syntactic filter, then
\* validatePosterImage for every candidate, each running up to its return
StartValidation(ctx, pvc) ==
    LET cands == SelectSeq(ctx.fr.all, IsCandidate)
        res == [k \in 1..Len(cands) |-> validatePosterImage(pvc, cands[k].posterUrl)]
    IN [ctx EXCEPT
          !.fr.st = "validate",
          !.fr.cands = cands,
          !.fr.valid = [k \in 1..Len(cands) |-> res[k].result],
          !.images = @ \cup {[own |-> "fetch", n |-> ctx.f, k |-> k,
                              url |-> cands[k].posterUrl, live |-> TRUE] :
                             k \in {j \in 1..Len(cands) : res[j].load}}]

\* the end of the landing branch, once Promise.all of the validations has resolved
FinishLanding(ctx) ==
    LET validatedMovies == Slice0(FilterValid(ctx.fr.cands, ctx.fr.valid), DisplayCount)
    IN [ctx EXCEPT
          !.fr.st = "done",
          !.movies = validatedMovies,
          !.loading = FALSE,
          !.loadingDetails = {},
          !.owner = ctx.f]

\* fetchMovies after the batch loop
AfterHydration(ctx, pvc) ==
    IF ~ctx.fr.landing THEN [ctx EXCEPT !.fr.st = "done"]
    ELSE LET c == StartValidation(ctx, pvc)
         IN IF \E k \in 1..Len(c.fr.valid) : c.fr.valid[k] = "pending"
            THEN c
            ELSE FinishLanding(c)

\* the batch loop from the top of an iteration, run until the call suspends
\* on a request or an image load, or ends: a Promise.all of settled promises
\* resumes in the same turn
RECURSIVE RunLoop(_, _, _)
RunLoop(ctx, cache, pvc) ==
    IF ctx.fr.i < Len(ctx.fr.data)
    THEN LET c == StartBatch(ctx, cache)
         IN IF PendingDetails(c.fr) # {}
            THEN c
            ELSE RunLoop(CompleteBatch(c), cache, pvc)
    ELSE AfterHydration(ctx, pvc)

\* the state a fetchMovies call reads and writes while it runs
Ctx(f) ==
    [f |-> f, fr |-> fetches[f], movies |-> movies, loadingDetails |-> loadingDetails,
     loading |-> loading, images |-> images, bypass |-> cacheBypass, owner |-> owner]

Commit(ctx) ==
    /\ fetches' = [fetches EXCEPT ![ctx.f] = ctx.fr]
    /\ movies' = ctx.movies
    /\ loadingDetails' = ctx.loadingDetails
    /\ loading' = ctx.loading
    /\ images' = ctx.images
    /\ cacheBypass' = ctx.bypass
    /\ owner' = ctx.owner

Op(name, page, text) == [op |-> name, page |-> page, text |-> text]

\* data.totalPages || data.pages || 1
TotalPagesOf(resp) == IF resp.totalPages # 0 THEN resp.totalPages ELSE 1

\* data.total || ... || (data.data?.length * (data.totalPages || 1)) || 0
TotalCountOf(resp) ==
    IF resp.total # 0 THEN resp.total
    ELSE Len(resp.data) * (IF resp.totalPages # 0 THEN resp.totalPages ELSE 1)

\* a fetchMovies that aborts the calls still in flight when it starts
StartFetchAborting(page, search, genre) ==
    /\ nfetch < MaxFetches
    /\ nfetch' = nfetch + 1
    /\ fetches' = [f \in 1..MaxFetches |->
                     IF f = nfetch + 1
                     THEN [IdleFetch EXCEPT
                             !.st = "list", !.page = page, !.search = search,
                             !.genre = genre,
                             !.landing = isLandingPage(page, search, genre),
                             !.limit = fetchLimit(isLandingPage(page, search, genre)),
                             !.params = URLSearchParams(page,
                                 fetchLimit(isLandingPage(page, search, genre)),
                                 search, genre)]
                     ELSE IF fetches[f].st \in {"list", "hydrate", "validate"}
                     THEN [fetches[f] EXCEPT !.st = "failed"]
                     ELSE fetches[f]]
    /\ loading' = TRUE
    /\ error' = NoError

\* fetchMovies up to its first await: setLoading(true), setError(null), the list request
StartFetch(page, search, genre) ==
    /\ nfetch < MaxFetches
    /\ nfetch' = nfetch + 1
    /\ fetches' = [fetches EXCEPT ![nfetch + 1] =
                     [IdleFetch EXCEPT
                        !.st = "list", !.page = page, !.search = search, !.genre = genre,
                        !.landing = isLandingPage(page, search, genre),
                        !.limit = fetchLimit(isLandingPage(page, search, genre)),
                        !.params = URLSearchParams(page,
                            fetchLimit(isLandingPage(page, search, genre)),
                            search, genre)]]
    /\ loading' = TRUE
    /\ error' = NoError

----------------------------------------------------------------------------
(* useMovies: the debounced search/genre effect *)

\* the id setTimeout returns: one no pending timer has
FreshTimerId(ts) ==
    CHOOSE n \in 1..(Cardinality(ts) + 1) :
        /\ \A t \in ts : t.id # n
        /\ \A m \in 1..(n - 1) : \E t \in ts : t.id = m

\* clearTimeout(id)
ClearTimeout(ts, id) == {t \in ts : t.id # id}

\* an effect whose cleanup clears no timer
SearchEffectNoCleanup(tok, hasFetched, sq, sg) ==
    LET genreChanged == prevGenre # sg
        searchChanged == prevSearch # sq
        timeoutId == FreshTimerId(timers)
    IN IF tok = NoToken \/ ~hasFetched
       THEN [prevSearch |-> prevSearch, prevGenre |-> prevGenre,
             timers |-> timers, cleanupTimer |-> 0]
       ELSE IF ~genreChanged /\ ~searchChanged
       THEN [prevSearch |-> sq, prevGenre |-> sg, timers |-> timers, cleanupTimer |-> 0]
       ELSE [prevSearch |-> sq, prevGenre |-> sg,
             timers |-> timers \cup {[id |-> timeoutId, search |-> sq, genre |-> sg]},
             cleanupTimer |-> timeoutId]

\* One run of the search/genre effect after a render in which searchQuery,
\* selectedGenre or token changed: the previous run's cleanup first, then the
\* effect body with the new values.
SearchEffect(tok, hasFetched, sq, sg) ==
    LET cleared == ClearTimeout(timers, cleanupTimer)
        genreChanged == prevGenre # sg
        searchChanged == prevSearch # sq
        timeoutId == FreshTimerId(cleared)
    IN IF tok = NoToken \/ ~hasFetched
       THEN [prevSearch |-> prevSearch, prevGenre |-> prevGenre,
             timers |-> cleared, cleanupTimer |-> 0]
       ELSE IF ~genreChanged /\ ~searchChanged
       THEN [prevSearch |-> sq, prevGenre |-> sg, timers |-> cleared, cleanupTimer |-> 0]
       ELSE [prevSearch |-> sq, prevGenre |-> sg,
             timers |-> cleared \cup {[id |-> timeoutId, search |-> sq, genre |-> sg]},
             cleanupTimer |-> timeoutId]

ApplyEffect(e) ==
    /\ prevSearch' = e.prevSearch
    /\ prevGenre' = e.prevGenre
    /\ timers' = e.timers
    /\ cleanupTimer' = e.cleanupTimer

\* setSelectedGenre(prev => prev === genre ? '' : genre)
handleGenreChange(prev, genre) == IF prev = genre THEN "" ELSE genre

\* a bounds check without the upper bound
PageChangeNoUpperBound(tok, page, pages) == tok # NoToken /\ page >= 1

\* handlePageChange: if (token && page >= 1 && page <= totalPages)
PageChangeAllowed(tok, page, pages) == tok # NoToken /\ page >= 1 /\ page <= pages

----------------------------------------------------------------------------
(* useMovies: actions *)

\* the initial effect: hasFetched.current = true; fetchToken()
InitialEffect ==
    /\ tokenReq = "idle"
    /\ tokenReq' = "pending"
    /\ lastOp' = Op("initialEffect", 0, "")
    /\ UNCHANGED <<world, token, movies, loading, loadingDetails, error, searchQuery,
                   selectedGenre, currentPage, totalPages, totalResults, prevSearch,
                   prevGenre, timers, cleanupTimer, fetches, nfetch, movieCache,
                   posterValidationCache, images, calls, owner, cacheBypass, favVars>>

\* GET /auth/token answers with a token: setToken, then fetchMovies(t, 1, '', '')
TokenOk ==
    /\ tokenReq = "pending"
    /\ tokenReq' = "done"
    /\ token' = "tok"
    /\ StartFetch(1, "", "")
    /\ ApplyEffect(SearchEffect("tok", TRUE, searchQuery, selectedGenre))
    /\ lastOp' = Op("tokenOk", 0, "")
    /\ UNCHANGED <<world, movies, loadingDetails, searchQuery, selectedGenre, currentPage,
                   totalPages, totalResults, movieCache, posterValidationCache, images,
                   calls, owner, cacheBypass, favVars>>

\* GET /auth/token rejects, or its body is not JSON: the catch sets the error
TokenFail ==
    /\ tokenReq = "pending"
    /\ tokenReq' = "done"
    /\ error' = "Connection failed"
    /\ lastOp' = Op("tokenFail", 0, "")
    /\ UNCHANGED <<world, token, movies, loading, loadingDetails, searchQuery,
                   selectedGenre, currentPage, totalPages, totalResults, prevSearch,
                   prevGenre, timers, cleanupTimer, fetches, nfetch, movieCache,
                   posterValidationCache, images, calls, owner, cacheBypass, favVars>>

\* GET /auth/token answers non-2xx with a JSON body that has no token field:
\* res.ok is not looked at, setToken(undefined), and no fetch follows
TokenMissing ==
    /\ tokenReq = "pending"
    /\ tokenReq' = "done"
    /\ lastOp' = Op("tokenMissing", 0, "")
    /\ UNCHANGED <<world, token, movies, loading, loadingDetails, error, searchQuery,
                   selectedGenre, currentPage, totalPages, totalResults, prevSearch,
                   prevGenre, timers, cleanupTimer, fetches, nfetch, movieCache,
                   posterValidationCache, images, calls, owner, cacheBypass, favVars>>

\* the user edits the search box: setSearchQuery(text), then the effect
SetSearchQuery(text) ==
    /\ tokenReq # "idle"
    /\ text # searchQuery
    /\ searchQuery' = text
    /\ ApplyEffect(SearchEffect(token, TRUE, text, selectedGenre))
    /\ lastOp' = Op("setSearchQuery", 0, text)
    /\ UNCHANGED <<world, token, tokenReq, movies, loading, loadingDetails, error,
                   selectedGenre, currentPage, totalPages, totalResults, fetches, nfetch,
                   movieCache, posterValidationCache, images, calls, owner, cacheBypass, favVars>>

\* the user clicks a genre pill: handleGenreChange(genre), then the effect
HandleGenreChange(genre) ==
    /\ tokenReq # "idle"
    /\ selectedGenre' = handleGenreChange(selectedGenre, genre)
    /\ ApplyEffect(SearchEffect(token, TRUE, searchQuery, selectedGenre'))
    /\ lastOp' = Op("handleGenreChange", 0, genre)
    /\ UNCHANGED <<world, token, tokenReq, movies, loading, loadingDetails, error,
                   searchQuery, currentPage, totalPages, totalResults, fetches, nfetch,
                   movieCache, posterValidationCache, images, calls, owner, cacheBypass, favVars>>

\* a debounce timer fires: fetchMovies(token, 1, searchQuery, selectedGenre)
\* with the values of the render that set the timer
DebounceFire(t) ==
    /\ t \in timers
    /\ timers' = timers \ {t}
    /\ StartFetch(1, t.search, t.genre)
    /\ lastOp' = Op("debounceFire", 1, t.search)
    /\ UNCHANGED <<world, token, tokenReq, movies, loadingDetails, searchQuery,
                   selectedGenre, currentPage, totalPages, totalResults, prevSearch,
                   prevGenre, cleanupTimer, movieCache, posterValidationCache, images,
                   calls, owner, cacheBypass, favVars>>

\* handlePageChange(page)
HandlePageChange(page) ==
    /\ tokenReq # "idle"
    /\ lastOp' = Op("handlePageChange", page, "")
    /\ IF PageChangeAllowed(token, page, totalPages)
       THEN StartFetch(page, searchQuery, selectedGenre)
       ELSE UNCHANGED <<nfetch, fetches, loading, error>>
    /\ UNCHANGED <<world, token, tokenReq, movies, loadingDetails, searchQuery,
                   selectedGenre, currentPage, totalPages, totalResults, prevSearch,
                   prevGenre, timers, cleanupTimer, movieCache, posterValidationCache,
                   images, calls, owner, cacheBypass, favVars>>

\* refetch: token && fetchMovies(token, 1, searchQuery, selectedGenre)
Refetch ==
    /\ tokenReq # "idle"
    /\ lastOp' = Op("refetch", 0, "")
    /\ IF token # NoToken
       THEN StartFetch(1, searchQuery, selectedGenre)
       ELSE UNCHANGED <<nfetch, fetches, loading, error>>
    /\ UNCHANGED <<world, token, tokenReq, movies, loadingDetails, searchQuery,
                   selectedGenre, currentPage, totalPages, totalResults, prevSearch,
                   prevGenre, timers, cleanupTimer, movieCache, posterValidationCache,
                   images, calls, owner, cacheBypass, favVars>>

----------------------------------------------------------------------------
(* useChatbot: a chat message handled by sendMessage *)

\* A chat message, trimmed and lower-cased, is the sequence of its parts; a
\* part is a word, or one of the two-word phrases sendMessage looks for.
Messages ==
    {<<"horror">>, <<"something", "scary">>, <<"drama">>, <<"clear", "horror">>,
     <<"show all">>, <<"help">>}

\* GENRES in the order detectGenre walks it, and genre.toLowerCase()
GENRES == <<"Drama", "Horror">>

ToLowerCase(genre) == IF genre = "Drama" THEN "drama" ELSE "horror"

\* the aliases map of detectGenre, in insertion order
aliases == <<[alias |-> "scary", genre |-> "Horror"]>>

\* detectGenre: the first genre whose lower-case name the message includes,
\* else the genre of the first alias it includes, else null ("")
detectGenre(message) ==
    LET named == {k \in 1..Len(GENRES) : Includes(message, ToLowerCase(GENRES[k]))}
        aliased == {k \in 1..Len(aliases) : Includes(message, aliases[k].alias)}
        First(S) == CHOOSE k \in S : \A j \in S : k <= j
    IN IF named # {} THEN GENRES[First(named)]
       ELSE IF aliased # {} THEN aliases[First(aliased)].genre
       ELSE ""

\* the clear/reset test sendMessage makes before it looks for a genre
IsClear(message) ==
    \/ Includes(message, "all movies") \/ Includes(message, "show all")
    \/ Includes(message, "clear") \/ Includes(message, "reset")

\* sendMessage(message) when no assistant request is pending. The
\* setSelectedGenre the chatbot is given is the one useMovies returns, which is
\* handleGenreChange; its fetchMovies call takes the genre itself. The
\* search/genre effect runs after the render if the selected genre changed.
SendMessage(message) ==
    LET target == IF IsClear(message) THEN "" ELSE detectGenre(message)
        acts == IsClear(message) \/ detectGenre(message) # ""
        next == IF acts THEN handleGenreChange(selectedGenre, target) ELSE selectedGenre
    IN /\ tokenReq # "idle"
       /\ selectedGenre' = next
       /\ IF acts /\ token # NoToken
          THEN StartFetch(1, searchQuery, target)
          ELSE UNCHANGED <<nfetch, fetches, loading, error>>
       /\ IF next # selectedGenre
          THEN ApplyEffect(SearchEffect(token, TRUE, searchQuery, next))
          ELSE UNCHANGED <<prevSearch, prevGenre, timers, cleanupTimer>>
       /\ lastOp' = Op("sendMessage", 0,
                       IF IsClear(message) THEN "clear" ELSE detectGenre(message))
       /\ UNCHANGED <<world, token, tokenReq, movies, loadingDetails, searchQuery,
                      currentPage, totalPages, totalResults, movieCache,
                      posterValidationCache, images, calls, owner, cacheBypass, favVars>>

----------------------------------------------------------------------------
(* useMovies: network events *)

\* a catch that also empties the displayed list
ListFailClears(f) ==
    /\ fetches[f].st = "list"
    /\ fetches' = [fetches EXCEPT ![f].st = "failed"]
    /\ error' = "Failed to load movies"
    /\ loading' = FALSE
    /\ movies' = <<>>
    /\ lastOp' = Op("listFail", f, "")
    /\ UNCHANGED <<world, token, tokenReq, loadingDetails, searchQuery,
                   selectedGenre, currentPage, totalPages, totalResults, prevSearch,
                   prevGenre, timers, cleanupTimer, nfetch, movieCache,
                   posterValidationCache, images, calls, owner, cacheBypass,
                   favVars>>

\* GET /movies rejects or answers non-2xx: the catch of fetchMovies
ListFail(f) ==
    /\ fetches[f].st = "list"
    /\ fetches' = [fetches EXCEPT ![f].st = "failed"]
    /\ error' = "Failed to load movies"
    /\ loading' = FALSE
    /\ lastOp' = Op("listFail", f, "")
    /\ UNCHANGED <<world, token, tokenReq, movies, loadingDetails, searchQuery,
                   selectedGenre, currentPage, totalPages, totalResults, prevSearch,
                   prevGenre, timers, cleanupTimer, nfetch, movieCache,
                   posterValidationCache, images, calls, owner, cacheBypass,
                   favVars>>

\* a list response that publishes the summaries of a landing fetch too
ListOkReveal(f, resp) ==
    /\ fetches[f].st = "list"
    /\ Len(resp.data) <= fetches[f].limit
    /\ totalPages' = TotalPagesOf(resp)
    /\ totalResults' = TotalCountOf(resp)
    /\ currentPage' = fetches[f].page
    /\ LET movieSummaries == [k \in 1..Len(resp.data) |-> Summary(resp.data[k])]
           c0 == [Ctx(f) EXCEPT !.fr.st = "hydrate", !.fr.data = resp.data,
                                !.fr.all = movieSummaries, !.fr.i = 0]
           c1 == [c0 EXCEPT !.movies = movieSummaries, !.loading = FALSE,
                            !.loadingDetails = Range(resp.data), !.owner = f]
       IN Commit(RunLoop(c1, movieCache, posterValidationCache))
    /\ lastOp' = Op("listOk", f, "")
    /\ UNCHANGED <<world, token, tokenReq, error, searchQuery, selectedGenre, prevSearch,
                   prevGenre, timers, cleanupTimer, nfetch, movieCache,
                   posterValidationCache, calls, favVars>>

\* GET /movies answers 2xx: pagination state, the summaries, then the batch
\* loop up to the first request that has to be awaited
ListOk(f, resp) ==
    /\ fetches[f].st = "list"
    /\ Len(resp.data) <= fetches[f].limit
    /\ totalPages' = TotalPagesOf(resp)
    /\ totalResults' = TotalCountOf(resp)
    /\ currentPage' = fetches[f].page
    /\ LET movieSummaries == [k \in 1..Len(resp.data) |-> Summary(resp.data[k])]
           c0 == [Ctx(f) EXCEPT !.fr.st = "hydrate", !.fr.data = resp.data,
                                !.fr.all = movieSummaries, !.fr.i = 0]
           c1 == IF c0.fr.landing THEN c0
                 ELSE [c0 EXCEPT !.movies = movieSummaries, !.loading = FALSE,
                                 !.loadingDetails = Range(resp.data), !.owner = f]
       IN Commit(RunLoop(c1, movieCache, posterValidationCache))
    /\ lastOp' = Op("listOk", f, "")
    /\ UNCHANGED <<world, token, tokenReq, error, searchQuery, selectedGenre, prevSearch,
                   prevGenre, timers, cleanupTimer, nfetch, movieCache,
                   posterValidationCache, calls, favVars>>

\* GET /movies/{id} of the running batch settles: a 2xx answer is cached and
\* returned, anything else gives null; when it was the batch's last request
\* the loop goes on
DetailSettle(f, k, outcome) ==
    /\ fetches[f].st = "hydrate"
    /\ k \in PendingDetails(fetches[f])
    /\ LET id == Batch(fetches[f])[k]
           movie == DetailOf(id)
           cache == IF outcome = "ok" THEN MapSet(movieCache, id, movie) ELSE movieCache
           c0 == [Ctx(f) EXCEPT
                    !.fr.details[k] = IF outcome = "ok" THEN movie ELSE NullMovie]
       IN /\ outcome \in DetailOutcomes(world, id)
          /\ movieCache' = cache
          /\ IF PendingDetails(c0.fr) # {}
             THEN Commit(c0)
             ELSE Commit(RunLoop(CompleteBatch(c0), cache, posterValidationCache))
    /\ lastOp' = Op("detailSettle", f, outcome)
    /\ UNCHANGED <<world, token, tokenReq, error, searchQuery, selectedGenre, currentPage,
                   totalPages, totalResults, prevSearch, prevGenre, timers, cleanupTimer,
                   nfetch, posterValidationCache, calls, favVars>>

----------------------------------------------------------------------------
(* validatePosterImage: image events, and calls made directly *)

IdleCall == [st |-> "idle", url |-> NoPoster, result |-> "pending"]

\* the poster URLs validated directly
CallUrls == {PosterUrlOf(1), PosterUrlOf(2)}

\* One of the three callbacks of an Image runs: posterValidationCache.set(url, b)
\* and resolve(b), which settles the promise only if it is still pending. An
\* image that loaded or errored fires no further event; after the timeout the
\* image still exists and its onload / onerror handlers stay attached.
ImageSettle(img, b, gone) ==
    LET imgs == IF gone THEN images \ {img}
                ELSE (images \ {img}) \cup {[img EXCEPT !.live = FALSE]}
    IN /\ posterValidationCache' = MapSet(posterValidationCache, img.url, b)
       /\ IF img.own = "fetch"
          THEN LET c0 == [Ctx(img.n) EXCEPT
                            !.images = imgs,
                            !.fr.valid[img.k] = IF @ = "pending" THEN Resolved(b) ELSE @]
               IN /\ IF /\ c0.fr.st = "validate"
                        /\ \A k \in 1..Len(c0.fr.valid) : c0.fr.valid[k] # "pending"
                     THEN Commit(FinishLanding(c0))
                     ELSE Commit(c0)
                  /\ UNCHANGED calls
          ELSE /\ calls' = [calls EXCEPT ![img.n] =
                              IF @.st = "pending"
                              THEN [@ EXCEPT !.st = "done", !.result = Resolved(b)]
                              ELSE @]
               /\ images' = imgs
               /\ UNCHANGED <<fetches, movies, loadingDetails, loading, owner, cacheBypass>>
       /\ UNCHANGED <<world, token, tokenReq, error, searchQuery, selectedGenre,
                      currentPage, totalPages, totalResults, prevSearch, prevGenre,
                      timers, cleanupTimer, nfetch, movieCache, favVars>>

\* img.onload
ImageLoad(img) ==
    /\ img \in images
    /\ "load" \in ImageOutcomes(world, img.url)
    /\ ImageSettle(img, TRUE, TRUE)
    /\ lastOp' = Op("imageLoad", img.n, "")

\* img.onerror
ImageError(img) ==
    /\ img \in images
    /\ "error" \in ImageOutcomes(world, img.url)
    /\ ImageSettle(img, FALSE, TRUE)
    /\ lastOp' = Op("imageError", img.n, "")

\* a timeout that resolves the validation as false
ImageTimeoutFalse(img) ==
    /\ img \in images
    /\ img.live
    /\ "timeout" \in ImageOutcomes(world, img.url)
    /\ ImageSettle(img, FALSE, FALSE)
    /\ lastOp' = Op("imageTimeout", img.n, "")

\* the setTimeout callback of validatePosterImage, unless clearTimeout came first
ImageTimeout(img) ==
    /\ img \in images
    /\ img.live
    /\ "timeout" \in ImageOutcomes(world, img.url)
    /\ ImageSettle(img, TRUE, FALSE)
    /\ lastOp' = Op("imageTimeout", img.n, "")

\* validatePosterImage(url, timeoutMs) called on its own
CallValidate(c, url) ==
    /\ calls[c].st = "idle"
    /\ \A d \in 1..(c - 1) : calls[d].st # "idle"
    /\ LET r == validatePosterImage(posterValidationCache, url)
       IN /\ calls' = [calls EXCEPT ![c] =
                         [st |-> IF r.load THEN "pending" ELSE "done",
                          url |-> url, result |-> r.result]]
          /\ images' = IF r.load
                       THEN images \cup {[own |-> "call", n |-> c, k |-> 0,
                                          url |-> url, live |-> TRUE]}
                       ELSE images
    /\ lastOp' = Op("validatePosterImage", c, "")
    /\ UNCHANGED <<world, token, tokenReq, movies, loading, loadingDetails, error,
                   searchQuery, selectedGenre, currentPage, totalPages, totalResults,
                   prevSearch, prevGenre, timers, cleanupTimer, fetches, nfetch,
                   movieCache, posterValidationCache, owner, cacheBypass,
                   favVars>>

----------------------------------------------------------------------------
(* AuthProvider and useFavorites: local storage, the cloud store, the effects *)

\* the movie ids the user marks as favorites
FavIds == {1, 2}

UserId == "u1"

\* getLocalFavorites: JSON.parse(localStorage.getItem(key) || '[]')
getLocalFavorites(item) == IF item.present THEN item.ids ELSE <<>>

\* saveLocalFavorites: localStorage.setItem(key, JSON.stringify(ids))
saveLocalFavorites(ids) == Item(ids)

\* cloudFavorites.map(f => f.movieId)
MovieIdsOf(favs) == [k \in 1..Len(favs) |-> favs[k].movieId]

\* isMovieInCloudFavorites: cloudFavorites.some(f => f.movieId === movieId)
isMovieInCloudFavorites(favs, movieId) == \E k \in 1..Len(favs) : favs[k].movieId = movieId

\* localFavorites.includes(movieId)
LocalIncludes(ids, movieId) == \E k \in 1..Len(ids) : ids[k] = movieId

\* isInFavorites (AuthProvider)
isInFavorites(u, favs, ids, movieId) ==
    IF u # NoUser THEN isMovieInCloudFavorites(favs, movieId) ELSE LocalIncludes(ids, movieId)

\* a favorites list that merges the two sets
FavoritesUnion(u, favs, ids) == MovieIdsOf(favs) \o ids

\* favorites (useFavorites): user ? cloudFavorites.map(f => f.movieId) : localFavorites
favorites(u, favs, ids) == IF u # NoUser THEN MovieIdsOf(favs) ELSE ids

\* addToLocalFavorites: the updater, with the save it makes
addToLocalFavorites(prev, sto, movieId) ==
    IF LocalIncludes(prev, movieId) THEN [local |-> prev, storage |-> sto]
    ELSE [local |-> Append(prev, movieId),
          storage |-> saveLocalFavorites(Append(prev, movieId))]

NotId(movieId) == [x \in FavIds \cup {0} |-> x # movieId]

\* prev.filter(id => id !== movieId)
Without(prev, movieId) ==
    LET keep == NotId(movieId)
        Keep(x) == keep[x]
    IN SelectSeq(prev, Keep)

\* an updater that removes nothing
RemoveNothing(prev, movieId) == [local |-> prev, storage |-> saveLocalFavorites(prev)]

\* removeFromLocalFavorites: the updater, with the save it makes
removeFromLocalFavorites(prev, movieId) ==
    [local |-> Without(prev, movieId), storage |-> saveLocalFavorites(Without(prev, movieId))]

\* the documents of a listDocuments answer, newest first (Query.orderDesc)
RECURSIVE NewestFirst(_)
NewestFirst(docs) ==
    IF docs = {} THEN <<>>
    ELSE LET d == CHOOSE x \in docs : \A y \in docs : y.docId <= x.docId
         IN <<d>> \o NewestFirst(docs \ {d})

\* a favoritesService call in flight: "sent" until the database has handled
\* it, then "ok" / "fail" until its answer reaches the client
FreshRequestId(reqs) ==
    CHOOSE n \in 1..(Cardinality(reqs) + 1) : \A r \in reqs : r.rid # n

Request(reqs, kind, movieId, docId, sync) ==
    [rid |-> FreshRequestId(reqs), kind |-> kind, movieId |-> movieId, docId |-> docId,
     sync |-> sync, phase |-> "sent", docs |-> {}]

\* a loop that adds every id of toSync, in the lookup or not
SyncLoopAll(rest, lookup) ==
    IF rest = <<>> THEN [cur |-> 0, rest |-> <<>>]
    ELSE [cur |-> Head(rest), rest |-> Tail(rest)]

\* for (const movieId of toSync): the ids skipped because movieData has no
\* entry for them, up to the first id that is added (0 when the loop ends)
RECURSIVE SyncLoop(_, _)
SyncLoop(rest, lookup) ==
    IF rest = <<>> THEN [cur |-> 0, rest |-> <<>>]
    ELSE IF Head(rest) \in lookup THEN [cur |-> Head(rest), rest |-> Tail(rest)]
    ELSE SyncLoop(Tail(rest), lookup)

\* the entries of toSync: localToSync.filter(id => !cloudIds.has(id))
ToSync(localToSync, favs) ==
    LET keep == [x \in FavIds \cup {0} |-> ~isMovieInCloudFavorites(favs, x)]
        Keep(x) == keep[x]
    IN SelectSeq(localToSync, Keep)

\* The sync effect of useFavorites after a render in which user, localFavorites,
\* cloudFavorites or movies changed, given the values of that render:
\* if (user && localFavorites.length > 0 && movies.length > 0) syncLocalToCloud(movieData),
\* which runs up to the first cloud add it awaits. st gives local favorites,
\* storage, syncs and requests before the effect; the result gives them after.
SyncEffect(u, favs, mv, st) ==
    IF u # NoUser /\ Len(st.local) > 0 /\ Len(mv) > 0
    THEN LET lookup == {mv[k].id : k \in 1..Len(mv)}
             toSync == ToSync(st.local, favs)
             step == SyncLoop(toSync, lookup)
             n == Len(st.syncs) + 1
             run == [st |-> IF step.cur = 0 THEN "done" ELSE "running",
                     localToSync |-> st.local, cloudIds |-> Range(MovieIdsOf(favs)),
                     lookup |-> lookup, cur |-> step.cur, rest |-> step.rest,
                     added |-> {},
                     sent |-> IF step.cur = 0 THEN {} ELSE {step.cur},
                     inStore |-> {d.movieId : d \in cloudStore}]
         IN [local |-> <<>>, storage |-> saveLocalFavorites(<<>>),
             syncs |-> Append(st.syncs, run),
             requests |-> IF step.cur = 0 THEN st.requests
                          ELSE st.requests \cup {Request(st.requests, "add", step.cur, 0, n)}]
    ELSE st

\* the part of the state the sync effect reads and writes
FavState == [local |-> localFavorites, storage |-> storage, syncs |-> syncs,
             requests |-> requests]

\* cloud adds not yet handled by the database
AddsSent(reqs) == {r \in reqs : r.kind = "add" /\ r.phase = "sent"}

ApplyFav(st) ==
    /\ Len(st.syncs) <= MaxSyncs
    /\ Cardinality(st.requests) <= MaxRequests
    /\ ndocs + Cardinality(AddsSent(st.requests)) <= MaxDocs
    /\ localFavorites' = st.local
    /\ storage' = st.storage
    /\ syncs' = st.syncs
    /\ requests' = st.requests

NoTrace == [id |-> NoMovie, before |-> FALSE, ops |-> <<>>]

\* history of the guest operations on one movie id
TraceOp(id, name) ==
    IF user # NoUser \/ id = NoMovie THEN NoTrace
    ELSE IF favTrace.id = id /\ Len(favTrace.ops) < 3
    THEN [favTrace EXCEPT !.ops = Append(@, name)]
    ELSE IF name = "toggle"
    THEN [id |-> id, before |-> LocalIncludes(localFavorites, id), ops |-> <<"toggle">>]
    ELSE NoTrace

\* toggleFavorite(movieId)
ToggleFavorite(movieId) ==
    LET movie == \E k \in 1..Len(movies) : movies[k].id = movieId
        isCurrentlyFavorite == IF user # NoUser
                               THEN isMovieInCloudFavorites(cloudFavorites, movieId)
                               ELSE LocalIncludes(localFavorites, movieId)
        favorite == cloudFavorites[CHOOSE k \in 1..Len(cloudFavorites) :
                        /\ cloudFavorites[k].movieId = movieId
                        /\ \A j \in 1..(k - 1) : cloudFavorites[j].movieId # movieId]
        removed == removeFromLocalFavorites(localFavorites, movieId)
    IN /\ authReq = "none"
       /\ IF isCurrentlyFavorite /\ user # NoUser
          THEN \* removeFromCloudFavorites(movieId)
               /\ ApplyFav([FavState EXCEPT !.requests =
                              @ \cup {Request(@, "remove", movieId, favorite.docId, 0)}])
               /\ UNCHANGED <<guestPromptOpen, pendingFavoriteAction>>
          ELSE IF isCurrentlyFavorite
          THEN \* removeFromLocalFavorites(movieId)
               /\ ApplyFav(SyncEffect(user, cloudFavorites, movies,
                              [FavState EXCEPT !.local = removed.local,
                                               !.storage = removed.storage]))
               /\ UNCHANGED <<guestPromptOpen, pendingFavoriteAction>>
          ELSE IF user # NoUser
          THEN \* if (movie) addToCloudFavorites(movieId, ...)
               /\ ApplyFav(IF movie
                           THEN [FavState EXCEPT !.requests =
                                   @ \cup {Request(@, "add", movieId, 0, 0)}]
                           ELSE FavState)
               /\ UNCHANGED <<guestPromptOpen, pendingFavoriteAction>>
          ELSE /\ pendingFavoriteAction' = movieId
               /\ guestPromptOpen' = TRUE
               /\ UNCHANGED <<localFavorites, storage, syncs, requests>>
       /\ favTrace' = TraceOp(movieId, "toggle")
       /\ UNCHANGED lastOp
       /\ UNCHANGED <<user, authReq, cloudFavorites, cloudStore, ndocs>>
       /\ UNCHANGED <<world, token, tokenReq, movies, loading, loadingDetails, error,
                      searchQuery, selectedGenre, currentPage, totalPages, totalResults,
                      prevSearch, prevGenre, timers, cleanupTimer, fetches, nfetch,
                      movieCache, posterValidationCache, images, calls, owner, cacheBypass>>

\* handleContinueAsGuest: executeAddFavorite(pendingFavoriteAction.movieId)
HandleContinueAsGuest ==
    LET added == addToLocalFavorites(localFavorites, storage, pendingFavoriteAction)
    IN /\ authReq = "none"
       /\ guestPromptOpen
       /\ IF pendingFavoriteAction # NoMovie
          THEN ApplyFav(SyncEffect(user, cloudFavorites, movies,
                          [FavState EXCEPT !.local = added.local,
                                           !.storage = added.storage]))
          ELSE UNCHANGED <<localFavorites, storage, syncs, requests>>
       /\ pendingFavoriteAction' = NoMovie
       /\ favTrace' = TraceOp(pendingFavoriteAction, "continue")
       /\ UNCHANGED lastOp
       /\ UNCHANGED <<user, authReq, cloudFavorites, cloudStore, ndocs, guestPromptOpen>>
       /\ UNCHANGED <<world, token, tokenReq, movies, loading, loadingDetails, error,
                      searchQuery, selectedGenre, currentPage, totalPages, totalResults,
                      prevSearch, prevGenre, timers, cleanupTimer, fetches, nfetch,
                      movieCache, posterValidationCache, images, calls, owner, cacheBypass>>

\* closeGuestPrompt
CloseGuestPrompt ==
    /\ guestPromptOpen
    /\ guestPromptOpen' = FALSE
    /\ pendingFavoriteAction' = NoMovie
    /\ UNCHANGED lastOp
    /\ UNCHANGED <<user, authReq, cloudFavorites, localFavorites, storage, cloudStore,
                   ndocs, requests, syncs, favTrace>>
    /\ UNCHANGED <<world, token, tokenReq, movies, loading, loadingDetails, error,
                   searchQuery, selectedGenre, currentPage, totalPages, totalResults,
                   prevSearch, prevGenre, timers, cleanupTimer, fetches, nfetch,
                   movieCache, posterValidationCache, images, calls, owner, cacheBypass>>

\* login / the checkSession of the mount: the request is sent
Login ==
    /\ user = NoUser
    /\ authReq = "none"
    /\ authReq' = "login"
    /\ UNCHANGED lastOp
    /\ UNCHANGED <<user, cloudFavorites, localFavorites, storage, cloudStore, ndocs,
                   requests, syncs, guestPromptOpen, pendingFavoriteAction, favTrace>>
    /\ UNCHANGED <<world, token, tokenReq, movies, loading, loadingDetails, error,
                   searchQuery, selectedGenre, currentPage, totalPages, totalResults,
                   prevSearch, prevGenre, timers, cleanupTimer, fetches, nfetch,
                   movieCache, posterValidationCache, images, calls, owner, cacheBypass>>

\* checkSession: setUser(currentUser); the render that follows runs the sync
\* effect of useFavorites and then the user effect of AuthProvider (fetchFavorites)
LoginOk ==
    LET synced == SyncEffect(UserId, cloudFavorites, movies, FavState)
    IN /\ authReq = "login"
       /\ authReq' = "none"
       /\ user' = UserId
       /\ ApplyFav([synced EXCEPT !.requests = @ \cup {Request(@, "list", 0, 0, 0)}])
       /\ favTrace' = NoTrace
       /\ UNCHANGED lastOp
       /\ UNCHANGED <<cloudFavorites, cloudStore, ndocs, guestPromptOpen,
                      pendingFavoriteAction>>
       /\ UNCHANGED <<world, token, tokenReq, movies, loading, loadingDetails, error,
                   searchQuery, selectedGenre, currentPage, totalPages, totalResults,
                   prevSearch, prevGenre, timers, cleanupTimer, fetches, nfetch,
                   movieCache, posterValidationCache, images, calls, owner, cacheBypass>>

\* authService.login or getCurrentUser rejects: setUser(null)
LoginFail ==
    /\ authReq = "login"
    /\ authReq' = "none"
    /\ UNCHANGED lastOp
    /\ UNCHANGED <<user, cloudFavorites, localFavorites, storage, cloudStore, ndocs,
                   requests, syncs, guestPromptOpen, pendingFavoriteAction, favTrace>>
    /\ UNCHANGED <<world, token, tokenReq, movies, loading, loadingDetails, error,
                   searchQuery, selectedGenre, currentPage, totalPages, totalResults,
                   prevSearch, prevGenre, timers, cleanupTimer, fetches, nfetch,
                   movieCache, posterValidationCache, images, calls, owner, cacheBypass>>

\* logout: await authService.logout() is sent
Logout ==
    /\ user # NoUser
    /\ authReq = "none"
    /\ authReq' = "logout"
    /\ UNCHANGED lastOp
    /\ UNCHANGED <<user, cloudFavorites, localFavorites, storage, cloudStore, ndocs,
                   requests, syncs, guestPromptOpen, pendingFavoriteAction, favTrace>>
    /\ UNCHANGED <<world, token, tokenReq, movies, loading, loadingDetails, error,
                   searchQuery, selectedGenre, currentPage, totalPages, totalResults,
                   prevSearch, prevGenre, timers, cleanupTimer, fetches, nfetch,
                   movieCache, posterValidationCache, images, calls, owner, cacheBypass>>

\* a logout that also forgets the guest favorites
LogoutClearsLocal(deleted) ==
    /\ authReq = "logout"
    /\ authReq' = "none"
    /\ user' = NoUser
    /\ cloudFavorites' = <<>>
    /\ localFavorites' = <<>>
    /\ storage' = saveLocalFavorites(<<>>)
    /\ favTrace' = NoTrace
    /\ lastOp' = Op("logoutSettle", 0, IF deleted THEN "deleted" ELSE "failed")
    /\ UNCHANGED <<cloudStore, ndocs, requests, syncs, guestPromptOpen,
                   pendingFavoriteAction>>
    /\ UNCHANGED <<world, token, tokenReq, movies, loading, loadingDetails, error,
                   searchQuery, selectedGenre, currentPage, totalPages, totalResults,
                   prevSearch, prevGenre, timers, cleanupTimer, fetches, nfetch,
                   movieCache, posterValidationCache, images, calls, owner, cacheBypass>>

\* account.deleteSession('current') settles, deleted or thrown: authService.logout()
\* catches the error and never throws, then setUser(null); setCloudFavorites([])
LogoutSettle(deleted) ==
    /\ authReq = "logout"
    /\ authReq' = "none"
    /\ user' = NoUser
    /\ cloudFavorites' = <<>>
    /\ favTrace' = NoTrace
    /\ lastOp' = Op("logoutSettle", 0, IF deleted THEN "deleted" ELSE "failed")
    /\ UNCHANGED <<localFavorites, storage, cloudStore, ndocs, requests, syncs,
                   guestPromptOpen, pendingFavoriteAction>>
    /\ UNCHANGED <<world, token, tokenReq, movies, loading, loadingDetails, error,
                   searchQuery, selectedGenre, currentPage, totalPages, totalResults,
                   prevSearch, prevGenre, timers, cleanupTimer, fetches, nfetch,
                   movieCache, posterValidationCache, images, calls, owner, cacheBypass>>

\* the database handles one favoritesService call
CloudServe(r, ok) ==
    LET doc == [docId |-> ndocs + 1, movieId |-> r.movieId]
        served ==
            IF ~ok THEN [r EXCEPT !.phase = "fail"]
            ELSE IF r.kind = "add" THEN [r EXCEPT !.phase = "ok", !.docId = ndocs + 1]
            ELSE IF r.kind = "remove"
            THEN [r EXCEPT !.phase = IF \E d \in cloudStore : d.docId = r.docId
                                     THEN "ok" ELSE "fail"]
            ELSE [r EXCEPT !.phase = "ok", !.docs = cloudStore]
    IN /\ r \in requests
       /\ r.phase = "sent"
       /\ requests' = (requests \ {r}) \cup {served}
       /\ cloudStore' = IF ok /\ r.kind = "add" THEN cloudStore \cup {doc}
                        ELSE IF ok /\ r.kind = "remove"
                        THEN {d \in cloudStore : d.docId # r.docId}
                        ELSE cloudStore
       /\ ndocs' = IF ok /\ r.kind = "add" THEN ndocs + 1 ELSE ndocs
       /\ UNCHANGED lastOp
       /\ UNCHANGED <<user, authReq, cloudFavorites, localFavorites, storage, syncs,
                      guestPromptOpen, pendingFavoriteAction, favTrace>>
       /\ UNCHANGED <<world, token, tokenReq, movies, loading, loadingDetails, error,
                   searchQuery, selectedGenre, currentPage, totalPages, totalResults,
                   prevSearch, prevGenre, timers, cleanupTimer, fetches, nfetch,
                   movieCache, posterValidationCache, images, calls, owner, cacheBypass>>

\* a continuation that applies an add or a remove whatever the call answered
DeliveredAlways(favs, r) ==
    IF r.kind = "list"
    THEN IF r.phase = "ok" THEN NewestFirst(r.docs) ELSE <<>>
    ELSE IF r.kind = "add" THEN <<[docId |-> r.docId, movieId |-> r.movieId]>> \o favs
    ELSE LET keep == [d \in Range(favs) |-> d.docId # r.docId]
             Keep(d) == keep[d]
         IN SelectSeq(favs, Keep)

\* setCloudFavorites of the continuation of one favoritesService call
Delivered(favs, r) ==
    IF r.kind = "list"
    THEN IF r.phase = "ok" THEN NewestFirst(r.docs) ELSE <<>>
    ELSE IF r.phase # "ok" THEN favs
    ELSE IF r.kind = "add" THEN <<[docId |-> r.docId, movieId |-> r.movieId]>> \o favs
    ELSE LET keep == [d \in Range(favs) |-> d.docId # r.docId]
             Keep(d) == keep[d]
         IN SelectSeq(favs, Keep)

\* the answer of one call reaches the client: its continuation runs, then the
\* for loop of the syncLocalToCloud that awaited it, then the render's sync effect
CloudDeliver(r) ==
    LET favs == Delivered(cloudFavorites, r)
        n == r.sync
        run == syncs[n]
        step == SyncLoop(run.rest, run.lookup)
        next == [run EXCEPT !.st = IF step.cur = 0 THEN "done" ELSE "running",
                            !.cur = step.cur, !.rest = step.rest,
                            !.added = IF r.phase = "ok" THEN @ \cup {r.movieId} ELSE @,
                            !.sent = IF step.cur = 0 THEN @ ELSE @ \cup {step.cur}]
        rest == requests \ {r}
        looped == IF n = 0 THEN [FavState EXCEPT !.requests = rest]
                  ELSE [FavState EXCEPT
                          !.syncs = [syncs EXCEPT ![n] = next],
                          !.requests = IF step.cur = 0 THEN rest
                                       ELSE rest \cup {Request(rest, "add", step.cur, 0, n)}]
    IN /\ r \in requests
       /\ r.phase # "sent"
       /\ cloudFavorites' = favs
       /\ ApplyFav(IF favs # cloudFavorites
                   THEN SyncEffect(user, favs, movies, looped) ELSE looped)
       /\ UNCHANGED lastOp
       /\ UNCHANGED <<user, authReq, cloudStore, ndocs, guestPromptOpen,
                      pendingFavoriteAction, favTrace>>
       /\ UNCHANGED <<world, token, tokenReq, movies, loading, loadingDetails, error,
                   searchQuery, selectedGenre, currentPage, totalPages, totalResults,
                   prevSearch, prevGenre, timers, cleanupTimer, fetches, nfetch,
                   movieCache, posterValidationCache, images, calls, owner, cacheBypass>>

\* the movies the hook was given change (setMovies of useMovies): the sync
\* effect of useFavorites runs with the new list
MoviesChange(list) ==
    /\ movies = <<>>
    /\ list # <<>>
    /\ movies' = list
    /\ ApplyFav(SyncEffect(user, cloudFavorites, list, FavState))
    /\ UNCHANGED lastOp
    /\ UNCHANGED <<user, authReq, cloudFavorites, cloudStore, ndocs, guestPromptOpen,
                   pendingFavoriteAction, favTrace>>
    /\ UNCHANGED <<world, token, tokenReq, loading, loadingDetails, error,
                   searchQuery, selectedGenre, currentPage, totalPages, totalResults,
                   prevSearch, prevGenre, timers, cleanupTimer, fetches, nfetch,
                   movieCache, posterValidationCache, images, calls, owner, cacheBypass>>

----------------------------------------------------------------------------
(* Initial states *)

InitPipe(w, cache, pvc, mv) ==
    /\ world = w
    /\ token = NoToken
    /\ tokenReq = "idle"
    /\ movies = mv
    /\ loading = TRUE
    /\ loadingDetails = {}
    /\ error = NoError
    /\ searchQuery = ""
    /\ selectedGenre = ""
    /\ currentPage = 1
    /\ totalPages = 1
    /\ totalResults = 0
    /\ prevSearch = ""
    /\ prevGenre = ""
    /\ timers = {}
    /\ cleanupTimer = 0
    /\ fetches = [f \in 1..MaxFetches |-> IdleFetch]
    /\ nfetch = 0
    /\ movieCache = cache
    /\ posterValidationCache = pvc
    /\ images = {}
    /\ calls = [c \in 1..MaxCalls |-> IdleCall]
    /\ lastOp = Op("init", 0, "")
    /\ owner = 0
    /\ cacheBypass = {}

InitFavIdle ==
    /\ user = NoUser
    /\ authReq = "none"
    /\ cloudFavorites = <<>>
    /\ localFavorites = <<>>
    /\ storage = NoItem
    /\ cloudStore = {}
    /\ ndocs = 0
    /\ requests = {}
    /\ syncs = <<>>
    /\ guestPromptOpen = FALSE
    /\ pendingFavoriteAction = NoMovie
    /\ favTrace = NoTrace

----------------------------------------------------------------------------
(* Specifications *)

\* the network and image events of the fetch pipeline
PipelineEvents ==
    \/ \E f \in 1..MaxFetches : ListFail(f)
    \/ \E f \in 1..MaxFetches : \E resp \in ListResponses(world) : ListOk(f, resp)
    \/ \E f \in 1..MaxFetches : \E k \in 1..batchSize : \E o \in {"ok", "fail"} :
          DetailSettle(f, k, o)
    \/ \E img \in images : ImageLoad(img)
    \/ \E img \in images : ImageError(img)
    \/ \E img \in images : ImageTimeout(img)

\* useMovies against a small catalog: overlapping fetches, the caches, paging
Init == InitPipe("small", <<>>, <<>>, <<>>) /\ InitFavIdle

Next ==
    \/ InitialEffect
    \/ TokenOk
    \/ TokenFail
    \/ TokenMissing
    \/ HandlePageChange(2)
    \/ Refetch
    \/ PipelineEvents

Spec == Init /\ [][Next]_vars

\* movieCache and posterValidationCache are module-level maps: they outlive a
\* mount of the hook. In the "full" world the hook is mounted again in a page
\* whose caches an earlier mount has filled in part; "sparse" starts cold.
WarmMovieCache == [id \in 1..20 |-> DetailOf(id)]

WarmPosterCache ==
    [url \in {PosterUrlOf(id) : id \in {1, 2, 3, 4, 9, 11, 13, 16, 17, 19}} |->
        url # PosterUrlOf(3)]

\* the landing fetch against a catalog of 30 movies: the initial effect's
\* fetchMovies(t, 1, '', '') from its list request to its final write
InitLanding ==
    /\ \/ InitPipe("full", WarmMovieCache, WarmPosterCache, <<>>)
       \/ InitPipe("sparse", <<>>, <<>>, <<>>)
    /\ InitFavIdle

NextLanding ==
    \/ InitialEffect
    \/ TokenOk
    \/ PipelineEvents

SpecLanding == InitLanding /\ [][NextLanding]_vars

\* the browser delivers the events of an image under way: its load, its
\* error, or else the timer validatePosterImage has set for it
ImageEvents == \E img \in images : ImageLoad(img) \/ ImageError(img) \/ ImageTimeout(img)

SpecLandingLive == SpecLanding /\ WF_vars(ImageEvents)


\* the user's inputs against a catalog that matches nothing: typing, genre
\* pills, the debounce timers, paging and retry up to each list response
InitInput == InitPipe("empty", <<>>, <<>>, <<>>) /\ InitFavIdle

NextInput ==
    \/ InitialEffect
    \/ TokenOk
    \/ TokenFail
    \/ TokenMissing
    \/ \E text \in SearchTexts : SetSearchQuery(text)
    \/ \E genre \in Genres : HandleGenreChange(genre)
    \/ \E t \in timers : DebounceFire(t)
    \/ \E page \in Pages : HandlePageChange(page)
    \/ Refetch
    \/ \E f \in 1..MaxFetches : ListFail(f)
    \/ \E f \in 1..MaxFetches : \E resp \in ListResponses(world) : ListOk(f, resp)

SpecInput == InitInput /\ [][NextInput]_vars

\* the chatbot next to the user's other inputs
NextChat ==
    \/ NextInput
    \/ \E message \in Messages : SendMessage(message)

SpecChat == InitInput /\ [][NextChat]_vars

\* the hook after its landing fetch of the small catalog has completed (list
\* response <<3, 6>>, both details cached, the poster of movie 3 loaded): page
\* changes and retries that overlap from there
InitRace ==
    /\ world = "small"
    /\ token = "tok"
    /\ tokenReq = "done"
    /\ movies = <<DetailOf(3)>>
    /\ loading = FALSE
    /\ loadingDetails = {}
    /\ error = NoError
    /\ searchQuery = ""
    /\ selectedGenre = ""
    /\ currentPage = 1
    /\ totalPages = 2
    /\ totalResults = 17
    /\ prevSearch = ""
    /\ prevGenre = ""
    /\ timers = {}
    /\ cleanupTimer = 0
    /\ fetches = [f \in 1..MaxFetches |-> IdleFetch]
    /\ nfetch = 0
    /\ movieCache = [id \in {3, 6} |-> DetailOf(id)]
    /\ posterValidationCache = [url \in {PosterUrlOf(3)} |-> TRUE]
    /\ images = {}
    /\ calls = [c \in 1..MaxCalls |-> IdleCall]
    /\ lastOp = Op("init", 0, "")
    /\ owner = 0
    /\ cacheBypass = {}
    /\ InitFavIdle

NextRace ==
    \/ HandlePageChange(2)
    \/ Refetch
    \/ PipelineEvents

SpecRace == InitRace /\ [][NextRace]_vars

\* validatePosterImage called directly, with every image outcome possible;
\* the validation cache is empty or holds one verdict of an earlier call
InitPoster ==
    /\ \/ InitPipe("empty", <<>>, <<>>, <<>>)
       \/ InitPipe("empty", <<>>, [url \in {PosterUrlOf(2)} |-> FALSE], <<>>)
    /\ InitFavIdle

NextPoster ==
    \/ \E c \in 1..MaxCalls : \E url \in CallUrls : CallValidate(c, url)
    \/ \E img \in images : ImageLoad(img)
    \/ \E img \in images : ImageError(img)
    \/ \E img \in images : ImageTimeout(img)

SpecPoster == InitPoster /\ [][NextPoster]_vars

(* Favorites: a guest or a signed-in user, local storage and the cloud database *)
MovieLists == {<<DetailOf(1), DetailOf(2)>>, <<DetailOf(1)>>}

InitFav ==
    /\ InitPipe("empty", <<>>, <<>>, <<>>)
    /\ user = NoUser
    /\ authReq = "none"
    /\ cloudFavorites = <<>>
    /\ storage \in {NoItem, Item(<<1>>), Item(<<1, 2>>)}
    /\ localFavorites = getLocalFavorites(storage)
    /\ cloudStore \in {{}, {[docId |-> 1, movieId |-> 2]}}
    /\ ndocs = Cardinality(cloudStore)
    /\ requests = {}
    /\ syncs = <<>>
    /\ guestPromptOpen = FALSE
    /\ pendingFavoriteAction = NoMovie
    /\ favTrace = NoTrace

NextFav ==
    \/ \E id \in FavIds : ToggleFavorite(id)
    \/ HandleContinueAsGuest
    \/ CloseGuestPrompt
    \/ Login
    \/ LoginOk
    \/ LoginFail
    \/ \E r \in requests, ok \in BOOLEAN : CloudServe(r, ok)
    \/ \E r \in requests : CloudDeliver(r)
    \/ \E list \in MovieLists : MoviesChange(list)

SpecFav == InitFav /\ [][NextFav]_vars

\* signing in and out: a guest's favorites, sign-in with its reconciliation
\* and its cloud calls, and logout with the answers that arrive after it
NextAuth ==
    \/ \E id \in FavIds : user = NoUser /\ ToggleFavorite(id)
    \/ HandleContinueAsGuest
    \/ CloseGuestPrompt
    \/ Login
    \/ LoginOk
    \/ LoginFail
    \/ Logout
    \/ \E deleted \in BOOLEAN : LogoutSettle(deleted)
    \/ \E r \in requests, ok \in BOOLEAN : CloudServe(r, ok)
    \/ \E r \in requests : CloudDeliver(r)
    \/ \E list \in MovieLists : MoviesChange(list)

SpecAuth == InitFav /\ [][NextAuth]_vars

----------------------------------------------------------------------------
(* The claims *)

\* the validated candidates of a landing fetch, by their place in its candidate list
ValidatedTrue(fr) == {k \in 1..Len(fr.cands) : fr.valid[k] = "true"}

\* the place of a movie id in the list response of a fetch
PlaceInData(fr, id) == CHOOSE k \in 1..Len(fr.data) : fr.data[k] = id

\* C1: when a landing fetch has made its final write, the movie list is the
\* first min(K, 15) of the K candidates that passed the syntactic poster filter
\* and validated true, in the order of the list response, and it holds no
\* movie whose poster validated false.
C1_LandingList ==
    \A f \in 1..MaxFetches :
        LET fr == fetches[f]
            G == ValidatedTrue(fr)
        IN (fr.landing /\ fr.st = "done" /\ owner = f) =>
              /\ \A k \in 1..Len(fr.cands) :
                    /\ fr.cands[k].hydrated
                    /\ isPosterUrlLikelyValid(fr.cands[k].posterUrl)
                    /\ fr.valid[k] \in {"true", "false"}
              /\ \A k \in 1..Len(fr.all) :
                    (fr.all[k].hydrated /\ isPosterUrlLikelyValid(fr.all[k].posterUrl))
                        => \E c \in 1..Len(fr.cands) : fr.cands[c] = fr.all[k]
              /\ Len(movies) = Min(Cardinality(G), 15)
              /\ \A j \in 1..Len(movies) :
                    \E k \in G : /\ Cardinality({x \in G : x < k}) = j - 1
                                 /\ movies[j] = fr.cands[k]
              /\ \A i, j \in 1..Len(movies) :
                    i < j => PlaceInData(fr, movies[i].id) < PlaceInData(fr, movies[j].id)
              /\ \A k \in 1..Len(fr.cands) :
                    fr.valid[k] = "false" =>
                        \A j \in 1..Len(movies) : movies[j].id # fr.cands[k].id

\* C1 witness: a landing fetch ended with more than 15 validated candidates,
\* one candidate validated false, and 15 movies written
C1_Witness ==
    \E f \in 1..MaxFetches :
        /\ fetches[f].landing /\ fetches[f].st = "done" /\ owner = f
        /\ Cardinality(ValidatedTrue(fetches[f])) > 15
        /\ \E k \in 1..Len(fetches[f].cands) : fetches[f].valid[k] = "false"
        /\ Len(movies) = 15

\* the step just taken was one in which fetchMovies call f ran to its end
JustCompleted(f) ==
    /\ fetches[f].st = "done"
    /\ lastOp.op \in {"listOk", "detailSettle", "imageLoad", "imageError", "imageTimeout"}
    /\ lastOp.page = f

\* C2: when a non-landing fetch completes, the displayed movie list has as
\* many entries as the data array of its list response.
C2_NonLandingCount ==
    \A f \in 1..MaxFetches :
        (JustCompleted(f) /\ ~fetches[f].landing) => Len(movies) = Len(fetches[f].data)

\* the requests of a syncLocalToCloud run are all answered and the run has ended
SyncFinished(n) == syncs[n].st = "done" /\ \A r \in requests : r.sync # n

\* C3: once a syncLocalToCloud run has finished, the local set is empty in
\* memory and in local storage, and the run added no cloud record for an id that
\* the cloud store already held when the run started.
C3_Reconciliation ==
    \A n \in 1..Len(syncs) :
        SyncFinished(n) =>
            /\ localFavorites = <<>>
            /\ getLocalFavorites(storage) = <<>>
            /\ syncs[n].added \cap syncs[n].inStore = {}

\* the favorite membership the hook shows for a movie id: favorites.includes(id)
Shown(id) == LocalIncludes(favorites(user, cloudFavorites, localFavorites), id)

C5_OneSource ==
    \A id \in FavIds :
        /\ user # NoUser =>
              (Shown(id) <=> \E k \in 1..Len(cloudFavorites) : cloudFavorites[k].movieId = id)
        /\ user = NoUser => (Shown(id) <=> id \in Range(localFavorites))
        /\ isInFavorites(user, cloudFavorites, localFavorites, id) <=> Shown(id)

\* C5 witness: a user is signed in while a local id not in the cloud set still
\* awaits reconciliation, and that id is not shown as a favorite
C5_Witness ==
    /\ user # NoUser
    /\ \E id \in Range(localFavorites) :
          /\ ~isMovieInCloudFavorites(cloudFavorites, id)
          /\ ~Shown(id)

\* C6: once a token is held, every change of the search text or the genre
\* leaves exactly one debounce timer pending, carrying the current search text
\* and genre (every earlier timer is cancelled); when the timer fires it
\* issues one fetchMovies call for page 1 with the final search text and
\* genre, and no timer stays pending.
C6_Debounce ==
    /\ Cardinality(timers) <= 1
    /\ \A t \in timers : t.search = searchQuery /\ t.genre = selectedGenre
    /\ (lastOp.op \in {"setSearchQuery", "handleGenreChange"} /\ token # NoToken)
          => Cardinality(timers) = 1
    /\ lastOp.op = "debounceFire" =>
          /\ timers = {}
          /\ fetches[nfetch].st = "list"
          /\ fetches[nfetch].page = 1
          /\ fetches[nfetch].search = searchQuery
          /\ fetches[nfetch].genre = selectedGenre

\* C6 witness: after the search text and the genre both changed inside one
\* debounce window, the only debounce fetch was issued, for "batman" and Drama
C6_Witness ==
    /\ lastOp.op = "debounceFire"
    /\ nfetch = 2
    /\ fetches[1].search = "" /\ fetches[1].genre = ""
    /\ fetches[2].page = 1 /\ fetches[2].search = "batman" /\ fetches[2].genre = "Drama"
    /\ timers = {}

\* C7: overlapping calls of validatePosterImage for one URL have at most one
\* image load under way between them.
C7_OneLoad ==
    \A url \in CallUrls :
        Cardinality({img \in images : img.own = "call" /\ img.url = url /\ img.live}) <= 1

\* C8: no detail request is issued for an id the cache holds, and every record
\* a fetchMovieDetails call has returned is the record the cache holds for its id.
C8_CacheHit ==
    /\ cacheBypass = {}
    /\ \A f \in 1..MaxFetches :
          \A k \in 1..Len(fetches[f].details) :
              LET d == fetches[f].details[k]
              IN d.hydrated => (d.id \in DOMAIN movieCache /\ movieCache[d.id] = d)

\* C8 witness: a list response has just started a batch in which one id was
\* served from the cache while another id of the batch needed a request
C8_Witness ==
    \E f \in 1..MaxFetches :
        /\ lastOp = Op("listOk", f, "")
        /\ fetches[f].st = "hydrate"
        /\ \E k \in 1..Len(fetches[f].details) :
              /\ fetches[f].details[k].hydrated
              /\ fetches[f].details[k] = movieCache[Batch(fetches[f])[k]]
        /\ PendingDetails(fetches[f]) # {}

\* the detail requests in flight, over all fetchMovies calls
InFlight ==
    {p \in (1..MaxFetches) \X (1..batchSize) : p[2] \in PendingDetails(fetches[p[1]])}

\* C9: in every state, overlapping fetchMovies calls included, at most 5
\* detail requests are in flight.
C9_GlobalBound == Cardinality(InFlight) <= 5

\* what handlePageChange can read or write, the fetch calls apart
HookState ==
    <<token, tokenReq, movies, loading, loadingDetails, error, searchQuery, selectedGenre,
      currentPage, totalPages, totalResults, prevSearch, prevGenre, timers, cleanupTimer,
      movieCache, posterValidationCache, images>>

\* C10: a handlePageChange(page) step with page < 1, page > totalPages or no
\* token changes nothing and issues no fetch; with a token and
\* 1 <= page <= totalPages it issues exactly one fetch, for that page with the
\* current search text and genre.
C10_PageChange ==
    [][lastOp'.op = "handlePageChange" =>
          IF token # NoToken /\ 1 <= lastOp'.page /\ lastOp'.page <= totalPages
          THEN /\ nfetch' = nfetch + 1
               /\ \A f \in 1..MaxFetches : f # nfetch' => fetches'[f] = fetches[f]
               /\ fetches'[nfetch'].st = "list"
               /\ fetches'[nfetch'].page = lastOp'.page
               /\ fetches'[nfetch'].search = searchQuery
               /\ fetches'[nfetch'].genre = selectedGenre
               /\ UNCHANGED <<movies, currentPage, totalPages, totalResults, searchQuery,
                              selectedGenre, timers>>
          ELSE UNCHANGED <<HookState, fetches, nfetch>>]_vars

\* C10 witness: handlePageChange(2) has just issued the fetch for page 2 with
\* the search text typed so far
C10_Witness ==
    /\ lastOp = Op("handlePageChange", 2, "")
    /\ nfetch = 2
    /\ fetches[2].st = "list" /\ fetches[2].page = 2
    /\ searchQuery = "bat" /\ fetches[2].search = "bat"

\* C11: a refetch that follows a token failure or a list failure starts from
\* the error state (error set, loading false) and issues one fetch, with the
\* page, search text and genre of the request that failed (page 1 without
\* search or genre for the fetch a token failure prevented).
C11_RetryReplays ==
    [][(lastOp'.op = "refetch" /\ lastOp.op \in {"tokenFail", "listFail"}) =>
          LET failed == IF lastOp.op = "listFail" THEN fetches[lastOp.page]
                        ELSE [IdleFetch EXCEPT !.page = 1]
          IN /\ error # NoError
             /\ loading = FALSE
             /\ nfetch' = nfetch + 1
             /\ fetches'[nfetch'].st = "list"
             /\ fetches'[nfetch'].page = failed.page
             /\ fetches'[nfetch'].search = failed.search
             /\ fetches'[nfetch'].genre = failed.genre]_vars

\* C12: no list request is issued while no token is held, and once the token
\* request has ended without a token the connectivity error is reported.
C12_TokenFailure ==
    /\ token = NoToken => nfetch = 0
    /\ (tokenReq = "done" /\ token = NoToken) => error = "Connection failed"

\* C13: a validation of an uncached URL resolves once: true when its image
\* loads, false when it errors, true when its timeout fires, and a verdict
\* once given never changes; no validation stays pending, so a landing fetch
\* that waits for its validations reaches its final write.
C13_ValidationResolves ==
    /\ [][\A f \in 1..MaxFetches :
            (fetches[f].st \in {"validate", "done"} /\ fetches[f].landing) =>
                \A k \in 1..Len(fetches[f].valid) :
                    LET before == fetches[f].valid[k]
                        after == fetches'[f].valid[k]
                    IN /\ before # "pending" => after = before
                       /\ (before = "pending" /\ after # "pending") =>
                             \/ lastOp'.op = "imageLoad" /\ after = "true"
                             \/ lastOp'.op = "imageError" /\ after = "false"
                             \/ lastOp'.op = "imageTimeout" /\ after = "true"]_vars
    /\ \A f \in 1..MaxFetches :
          (fetches[f].st = "validate") ~> (fetches[f].st = "done")

\* C13 witness: a landing fetch made its final write when the last pending
\* validation timed out, after another validation had resolved false
C13_Witness ==
    \E f \in 1..MaxFetches :
        /\ fetches[f].landing /\ fetches[f].st = "done"
        /\ lastOp = Op("imageTimeout", f, "")
        /\ \E k \in 1..Len(fetches[f].valid) : fetches[f].valid[k] = "false"
        /\ \E img \in images : ~img.live /\ img.n = f

\* C14: the step that ends a logout, whether the delete-session call
\* succeeded or failed, sets the user to none and empties the in-memory cloud
\* set, and leaves the local favorites set and the stored array unchanged.
C14_Logout ==
    [][(authReq = "logout" /\ authReq' = "none") =>
          /\ user # NoUser
          /\ user' = NoUser
          /\ cloudFavorites' = <<>>
          /\ localFavorites' = localFavorites
          /\ storage' = storage]_vars

\* C14 witness: a logout whose delete-session call failed has just ended, with
\* a cloud record stored for the user and a local favorite still kept
C14_Witness ==
    /\ lastOp = Op("logoutSettle", 0, "failed")
    /\ authReq = "none"
    /\ user = NoUser
    /\ cloudFavorites = <<>>
    /\ cloudStore # {}
    /\ localFavorites # <<>>
    /\ getLocalFavorites(storage) = localFavorites

\* a fetchMovies call that has started and not ended
Running(fr) == fr.st \in {"list", "hydrate", "validate"}

\* C15: pagination state changes only in the step of a successful list
\* response, and when a fetchMovies call completes and leaves no call in
\* flight, currentPage is the page that call requested.
C15_Pagination ==
    [][/\ <<currentPage, totalPages, totalResults>>' # <<currentPage, totalPages, totalResults>>
            => lastOp'.op = "listOk"
       /\ \A f \in 1..MaxFetches :
             (/\ fetches[f].st # "done"
              /\ fetches'[f].st = "done"
              /\ \A g \in 1..MaxFetches : ~Running(fetches'[g]))
                => currentPage' = fetches'[f].page]_vars

\* C16: a chat message naming genre G leaves G selected, whatever was selected
\* before (G itself included), and starts a page-1 fetch with genre G when a
\* token is held.
C16_ChatGenre ==
    [][(lastOp'.op = "sendMessage" /\ lastOp'.text \in Genres) =>
          /\ selectedGenre' = lastOp'.text
          /\ token # NoToken =>
                /\ nfetch' = nfetch + 1
                /\ fetches'[nfetch'].st = "list"
                /\ fetches'[nfetch'].page = 1
                /\ fetches'[nfetch'].genre = lastOp'.text
                /\ fetches'[nfetch'].search = searchQuery]_vars

\* the id for which this step runs movieCache.set(id, movie): the detail
\* request of call lastOp'.page that settles with a 2xx response
CacheSet(id) ==
    /\ lastOp'.op = "detailSettle"
    /\ lastOp'.text = "ok"
    /\ LET fr == fetches[lastOp'.page]
           after == fetches'[lastOp'.page]
           sameBatch == after.st = "hydrate" /\ after.i = fr.i
       IN \E k \in PendingDetails(fr) :
             /\ Batch(fr)[k] = id
             /\ sameBatch => after.details[k] # PendingMovie

\* C17: the detail cache is write-once: an entry the cache holds is never
\* removed, never changed, and never written again, on any interleaving of
\* detail responses.
C17_WriteOnce ==
    [][\A id \in DOMAIN movieCache :
          /\ id \in DOMAIN movieCache'
          /\ movieCache'[id] = movieCache[id]
          /\ ~CacheSet(id)]_vars

\* C18: the poster validation cache is append-only: an entry, once it exists,
\* keeps its value whatever image load, error or timeout events arrive later.
C18_AppendOnly ==
    [][\A url \in DOMAIN posterValidationCache :
          /\ url \in DOMAIN posterValidationCache'
          /\ posterValidationCache'[url] = posterValidationCache[url]]_vars

\* the ids of a movie list, in order
Ids(ms) == [k \in 1..Len(ms) |-> ms[k].id]

\* the ids of the list a fetchMovies call puts on display: the page it was
\* given for a non-landing call, its validated movies for a landing call
ListOf(fr) ==
    IF fr.landing
    THEN Ids(Slice0(FilterValid(fr.cands, fr.valid), DisplayCount))
    ELSE fr.data

\* this step is the write with which call f replaces the displayed list
Replaces(f) ==
    IF fetches'[f].landing
    THEN fetches[f].st # "done" /\ fetches'[f].st = "done"
    ELSE fetches[f].st = "list" /\ fetches'[f].st \in {"hydrate", "done"}

\* C19 as stated: whenever an older call A makes its final write after a newer
\* call B has made its own, the displayed list ends as A's result.
C19_LastWriteWins ==
    [][\A f, g \in 1..MaxFetches :
          (/\ f < g
           /\ fetches[g].st = "done"
           /\ fetches[f].st # "done"
           /\ fetches'[f].st = "done")
             => Ids(movies') = ListOf(fetches'[f])]_vars

\* C19: a fetch in flight is not cancelled when a new one starts, and the
\* displayed list is the list of the call that replaced it last, older or
\* not: only a non-landing call's list-response write and a landing call's
\* final write replace the list, a detail update keeps its ids.
C19_ReplacingWriteWins ==
    /\ [](owner # 0 => Ids(movies) = ListOf(fetches[owner]))
    /\ [][/\ \A f \in 1..MaxFetches :
                (Running(fetches[f]) /\ nfetch' # nfetch) => fetches'[f] = fetches[f]
          /\ Ids(movies') # Ids(movies) =>
                \E f \in 1..MaxFetches :
                    Replaces(f) /\ owner' = f /\ Ids(movies') = ListOf(fetches'[f])]_vars

\* C19 witness: both calls have ended, the older one last, and the displayed
\* list is the older call's, not the list of the latest request
C19_Witness ==
    /\ nfetch = 2
    /\ fetches[1].st = "done"
    /\ fetches[2].st = "done"
    /\ lastOp.op \in {"listOk", "detailSettle"}
    /\ lastOp.page = 1
    /\ owner = 1
    /\ Ids(movies) = ListOf(fetches[1])
    /\ Ids(movies) # ListOf(fetches[2])

\* the call whose detail request settles in this step, the place of that
\* request in the running batch, and the batch's results once it has settled
SettlingCall == fetches[lastOp'.page]

SettledIndex ==
    LET fr == SettlingCall
        after == fetches'[lastOp'.page]
    IN CHOOSE k \in PendingDetails(fr) :
          (after.st = "hydrate" /\ after.i = fr.i) => after.details[k] # PendingMovie

SettledDetails ==
    [SettlingCall.details EXCEPT ![SettledIndex] =
        IF lastOp'.text = "ok" THEN DetailOf(Batch(SettlingCall)[SettledIndex])
        ELSE NullMovie]

\* C20 as stated: a movie whose detail fetch failed stays in the displayed
\* list, in summary form at its position in the page, whatever call it is.
C20_StaysInList ==
    \A f \in 1..MaxFetches :
        \A k \in 1..Len(fetches[f].all) :
            (/\ fetches[f].st = "done"
             /\ owner = f
             /\ ~fetches[f].all[k].hydrated
             /\ fetches[f].all[k].id \notin DOMAIN movieCache)
               => /\ k <= Len(movies)
                  /\ movies[k] = Summary(fetches[f].all[k].id)

\* C20: a failed detail fetch writes no cache entry, leaves the error state
\* alone and does not end the call. When it completes a batch of a non-landing
\* call, the displayed list keeps its ids and order, the failed movie's record
\* stays as it was and every movie of the batch whose detail arrived is shown
\* hydrated. A landing call shows hydrated movies only.
C20_PartialHydration ==
    /\ [](\A f \in 1..MaxFetches :
             (fetches[f].landing /\ fetches[f].st = "done" /\ owner = f) =>
                 \A k \in 1..Len(movies) : movies[k].hydrated)
    /\ [][(lastOp'.op = "detailSettle" /\ lastOp'.text = "fail") =>
             /\ movieCache' = movieCache
             /\ error' = error
             /\ fetches'[lastOp'.page].st \in {"hydrate", "validate", "done"}
             /\ (~SettlingCall.landing /\ PendingDetails(SettlingCall) = {SettledIndex}) =>
                   /\ Ids(movies') = Ids(movies)
                   /\ \A j \in 1..Len(SettledDetails) :
                         LET place == FindIndex(movies, Batch(SettlingCall)[j])
                         IN place # 0 =>
                               movies'[place] = IF SettledDetails[j] = NullMovie
                                                THEN movies[place]
                                                ELSE SettledDetails[j]]_vars

\* C20 witness: the detail request of movie 2 has just failed and completed a
\* batch of the displayed page: movie 2 is shown as a summary in second place
\* next to hydrated movies, uncached, with no error
C20_Witness ==
    \E f \in 1..MaxFetches :
        /\ lastOp = Op("detailSettle", f, "fail")
        /\ ~fetches[f].landing
        /\ owner = f
        /\ fetches[f].i >= batchSize
        /\ Len(movies) >= 2
        /\ movies[2] = Summary(2)
        /\ movies[1] = DetailOf(1)
        /\ 2 \notin DOMAIN movieCache
        /\ error = NoError

\* C21: when the list request of a call fails, the step sets the error message
\* and loading false and leaves the movie list, currentPage, totalPages and
\* totalResults as they were; the call has issued no detail request and no
\* poster validation, and it never runs again.
C21_ListFailure ==
    /\ [](\A f \in 1..MaxFetches :
             fetches[f].st = "failed" =>
                 /\ fetches[f].details = <<>>
                 /\ fetches[f].all = <<>>
                 /\ \A img \in images : ~(img.own = "fetch" /\ img.n = f))
    /\ [][/\ lastOp'.op = "listFail" =>
                /\ fetches[lastOp'.page].st = "list"
                /\ fetches'[lastOp'.page].st = "failed"
                /\ error' = "Failed to load movies"
                /\ loading' = FALSE
                /\ movies' = movies
                /\ currentPage' = currentPage
                /\ totalPages' = totalPages
                /\ totalResults' = totalResults
                /\ movieCache' = movieCache
                /\ images' = images
          /\ \A f \in 1..MaxFetches :
                fetches[f].st = "failed" => fetches'[f] = fetches[f]]_vars

\* C21 witness: the list request of a second call has just failed while the
\* list and the pagination of an earlier call are on display
C21_Witness ==
    /\ lastOp = Op("listFail", 2, "")
    /\ fetches[2].st = "failed"
    /\ error = "Failed to load movies"
    /\ loading = FALSE
    /\ movies # <<>>
    /\ totalPages = 2
    /\ totalResults = 17

\* this step runs the continuation of the favoritesService call r
Delivers(r) == r \in requests /\ r.phase # "sent" /\ r \notin requests'

\* C22: a failed cloud add or cloud remove leaves the in-memory cloud set as
\* it is and sets no error; the set gains a record only with the answer of a
\* successful add, which is that call's record, and loses one only with the
\* answer of a successful remove of that record (the favorites load, which
\* replaces the whole set, apart).
C22_CloudWriteFailure ==
    [][/\ \A r \in requests :
             (Delivers(r) /\ r.kind \in {"add", "remove"} /\ r.phase = "fail") =>
                 /\ cloudFavorites' = cloudFavorites
                 /\ error' = error
       /\ \A d \in Range(cloudFavorites') \ Range(cloudFavorites) :
             \E r \in requests :
                 /\ Delivers(r)
                 /\ r.phase = "ok"
                 /\ \/ r.kind = "list"
                    \/ r.kind = "add" /\ d = [docId |-> r.docId, movieId |-> r.movieId]
       /\ \A d \in Range(cloudFavorites) \ Range(cloudFavorites') :
             \E r \in requests :
                 /\ Delivers(r)
                 /\ \/ r.kind = "list"
                    \/ r.kind = "remove" /\ r.phase = "ok" /\ d.docId = r.docId]_vars

\* C22 witness: a signed-in user's toggle has sent a cloud remove for a record
\* of the in-memory set and the call has failed; its answer is about to run
C22_Witness ==
    /\ user # NoUser
    /\ \E r \in requests :
          /\ r.kind = "remove"
          /\ r.phase = "fail"
          /\ \E k \in 1..Len(cloudFavorites) : cloudFavorites[k].docId = r.docId
    /\ \E r \in requests : r.kind = "add" /\ r.sync = 0 /\ r.phase = "fail"

\* C23: syncLocalToCloud starts only for a sign-in that found a non-empty
\* local set (in the sign-in's own render, or later in the first render that
\* has movies), and never while an earlier run is in progress.
C23_OncePerTransition ==
    [][Len(syncs') > Len(syncs) =>
          /\ localFavorites # <<>>
          /\ user' # NoUser
          /\ \A n \in 1..Len(syncs) : syncs[n].st = "done"]_vars

\* the local ids a reconciliation run drops: not in the cloud set it read and
\* not in the movie lookup it was given
Dropped(run) == (Range(run.localToSync) \ run.cloudIds) \ run.lookup

\* C24: a reconciliation run sends no cloud add for a local id that is not in
\* the cloud set and not in the movie lookup; the step that starts the run
\* empties the local set and the stored array, sets no error, and leaves such
\* an id in neither set.
C24_SilentDrop ==
    /\ [](\A n \in 1..Len(syncs) : Dropped(syncs[n]) \cap syncs[n].sent = {})
    /\ [][Len(syncs') > Len(syncs) =>
             LET run == syncs'[Len(syncs')]
             IN /\ localFavorites' = <<>>
                /\ storage' = Item(<<>>)
                /\ error' = error
                /\ \A id \in Dropped(run) :
                      /\ ~isMovieInCloudFavorites(cloudFavorites', id)
                      /\ \A r \in requests' \ requests : r.movieId # id]_vars

\* C24 witness: a reconciliation has ended that dropped movie 2, which was a
\* local favorite, is not in the lookup and is in no set and no store now
C24_Witness ==
    /\ Len(syncs) = 1
    /\ syncs[1].st = "done"
    /\ 2 \in Dropped(syncs[1])
    /\ syncs[1].added = {1}
    /\ requests = {}
    /\ localFavorites = <<>>
    /\ storage = Item(<<>>)
    /\ ~isMovieInCloudFavorites(cloudFavorites, 2)
    /\ \A d \in cloudStore : d.movieId # 2

\* the value a list request sends for a query parameter, "" when it sends none
Param(fr, key) ==
    IF \E q \in fr.params : q.key = key
    THEN (CHOOSE q \in fr.params : q.key = key).value
    ELSE ""

\* C25: a fetch is a landing fetch exactly when page = 1 and search and genre
\* are empty; a landing fetch sends limit = 30, any other limit = 15; the
\* search and genre parameters are sent exactly when they are non-empty, each
\* key once and with the call's value.
C25_Classification ==
    \A f \in 1..nfetch :
        LET fr == fetches[f]
        IN /\ fr.landing <=> (fr.page = 1 /\ fr.search = "" /\ fr.genre = "")
           /\ fr.limit = (IF fr.landing THEN 30 ELSE 15)
           /\ Param(fr, "limit") = ToString(fr.limit)
           /\ Param(fr, "page") = ToString(fr.page)
           /\ (\E q \in fr.params : q.key = "search") <=> fr.search # ""
           /\ (\E q \in fr.params : q.key = "genre") <=> fr.genre # ""
           /\ Param(fr, "search") = fr.search
           /\ Param(fr, "genre") = fr.genre
           /\ \A q1, q2 \in fr.params : q1.key = q2.key => q1 = q2

\* C25 witness: the landing fetch and, after it, a page-1 fetch with a genre
\* and no search text, which is not landing and sends genre but no search
C25_Witness ==
    /\ nfetch = 2
    /\ fetches[1].landing
    /\ Param(fetches[1], "limit") = "30"
    /\ fetches[2].page = 1
    /\ fetches[2].search = ""
    /\ fetches[2].genre = "Horror"
    /\ ~fetches[2].landing
    /\ Param(fetches[2], "limit") = "15"
    /\ Param(fetches[2], "genre") = "Horror"

\* the steps of the fetchMovies call f: its list response, a detail response
\* of its batch, an event of one of its images
StepOf(f) ==
    /\ lastOp'.page = f
    /\ lastOp'.op \in {"listOk", "detailSettle", "imageLoad", "imageError", "imageTimeout"}

C27_PageInRange == 1 <= currentPage /\ currentPage <= totalPages

\* C28: while a user is signed in, the in-memory cloud set holds at most one
\* favorite record per movieId. Stated for the behaviours in which no
\* syncLocalToCloud run was started, so that every record comes from toggleFavorite.
C28_OneRecordPerMovie ==
    (user # NoUser /\ syncs = <<>>) =>
        \A i, j \in 1..Len(cloudFavorites) :
            cloudFavorites[i].movieId = cloudFavorites[j].movieId => i = j

\* sign-in with its initial load and its reconciliation, every cloud call
\* answered successfully: the interleavings of the load's answer with the
\* cloud adds of syncLocalToCloud
NextSync ==
    \/ Login
    \/ LoginOk
    \/ \E r \in requests : CloudServe(r, TRUE)
    \/ \E r \in requests : CloudDeliver(r)
    \/ \E list \in MovieLists : MoviesChange(list)

SpecSync == InitFav /\ [][NextSync]_vars

\* C29: after sign-in, once the initial load (fetchFavorites) and every
\* syncLocalToCloud run have finished and no cloud call is outstanding, the
\* movieIds of the in-memory cloud set are the movieIds of the cloud store.
C29_MemoryEqualsStore ==
    (/\ user # NoUser
     /\ requests = {}
     /\ \A n \in 1..Len(syncs) : syncs[n].st = "done")
        => Range(MovieIdsOf(cloudFavorites)) = {d.movieId : d \in cloudStore}

\* the small catalog with every list request, detail request and image load
\* under way eventually settling or timing out
SpecLive == Spec /\ WF_vars(PipelineEvents)

\* C30: every fetchMovies call under way eventually finishes; whenever a token
\* is held and no call is under way, loading is false and loadingDetails is
\* empty; and once the token request has ended without a token, loading
\* eventually becomes false.
C30_Quiescence ==
    /\ \A f \in 1..MaxFetches : Running(fetches[f]) ~> ~Running(fetches[f])
    /\ []((token # NoToken /\ \A f \in 1..MaxFetches : ~Running(fetches[f]))
            => (loading = FALSE /\ loadingDetails = {}))
    /\ (tokenReq = "done" /\ token = NoToken) ~> (loading = FALSE)

============================================================================
